---- MODULE Spec2Model ----
(***************************************************************************)
(* The dungeon-diagram solution checker of terminal-tombcrawler           *)
(* (src/src/checker.rs), with the puzzle of src/src/lib.rs and the test   *)
(* level of src/tui/src/main.rs.                                          *)
(*                                                                         *)
(* A coordinate is a pair <<x, y>>.  A puzzle is a record                  *)
(* [width, height, tiles] with tiles a function from the board's cells to  *)
(* "None", "Monster" or "TreasureChest".  A Solution is the set `walls` of *)
(* board cells it reports as walls, together with `oob`, what its is_wall  *)
(* does when asked about a coordinate outside the board: the trait leaves  *)
(* that to the implementation (the Dummy of main.rs indexes an array and   *)
(* panics, a grid-backed view answers "no wall").                          *)
(*                                                                         *)
(* Spec is check_solution called directly, twice on the same input;        *)
(* HarnessSpec is the solve harness of src/tui/src/harness.rs, which       *)
(* calls check_solution on a view of its markings after every key.         *)
(***************************************************************************)
EXTENDS Integers, Sequences, FiniteSets, TLC

\* Most cells of a board whose puzzles and solutions are all enumerated.
MaxCells == 4
\* Most cells in which an input differs from a seed level.
MaxEdits == 1
\* Longest side of the boards without fixed tiles that are checked all
\* open and all walls.
MaxSide == 5

VARIABLES
  puzzle,     \* the Puzzle being checked
  walls,      \* the Solution: board cells for which is_wall is true
  oob,        \* the Solution's behaviour outside the board, once asked
  call,       \* 1 during the first check_solution call, 2 during the second
  first,      \* what the first call returned
  pc,         \* position inside check_solution
  openings,   \* check_shape: openings
  monsters,   \* check_shape: monsters
  chests,     \* check_shape: chests
  rvf,        \* check_shape: reachable_via_floodfill
  big_opens,  \* check_solution: big_opens
  todo,       \* check_solution: chests the for loop has not reached yet
  claimed,    \* check_solution: claimed_by_chests
  rooms,      \* the room check_chest returned for each chest processed
  asked,      \* off-board coordinates passed to Solution::is_wall so far
  result      \* what the current call returned

\* The SolveHarness of tui/src/harness.rs.  Its level is `puzzle`, and
\* `walls` is what its SolutionView reports: the cells marked Wall.
VARIABLES
  cursor,       \* SolveHarness::cursor
  markings,     \* SolveHarness::markings: "None", "Wall" or "Empty" per cell
  solved,       \* SolveHarness::solved
  must_redraw,  \* SolveHarness::must_redraw
  quit,         \* update: the value of its 'inner block, which it returns
  hpc           \* "key": spin waits for a key; "check": update is at line 171

hvars == <<cursor, markings, solved, must_redraw, quit, hpc>>

vars == <<puzzle, walls, oob, call, first, pc, openings, monsters, chests,
          rvf, big_opens, todo, claimed, rooms, asked, result, hvars>>

----------------------------------------------------------------------------
(* Results *)

NoResult == [kind |-> "None"]
Ok == [kind |-> "Ok"]
Panic == [kind |-> "Panic"]
Failure(pos, reason) == [kind |-> "Err", reason |-> reason, tile |-> "None", pos |-> pos]
WallOverlapsFilledTile(pos, tile) ==
  [kind |-> "Err", reason |-> "WallOverlapsFilledTile", tile |-> tile, pos |-> pos]

----------------------------------------------------------------------------
(* Puzzle and Solution *)

Cells(w, h) == (0 .. w - 1) \X (0 .. h - 1)

width == puzzle.width
height == puzzle.height
Board == Cells(width, height)

get_tile(coord) == puzzle.tiles[coord]

InBounds(coord) ==
  /\ coord[1] >= 0 /\ coord[1] < width
  /\ coord[2] >= 0 /\ coord[2] < height

OobModes == {"wall", "open", "panic"}

\* Solution::is_wall(coord) for a coordinate with non-negative components,
\* when the Solution behaves as `mode` outside the board:
\* "wall", "open", or "panic".
is_wall(coord, mode) ==
  IF InBounds(coord)
    THEN (IF coord \in walls THEN "wall" ELSE "open")
    ELSE mode

\* CoordVec::to_coord: None for a negative component.
to_coord(v) == IF v[1] >= 0 /\ v[2] >= 0 THEN <<"Some", v>> ELSE <<"None", v>>

saturating_sub(a, b) == IF a >= b THEN a - b ELSE 0
Min(a, b) == IF a <= b THEN a ELSE b

----------------------------------------------------------------------------
(* check_shape, the sweep over the board *)

ScanAcc(o, m, c) == [kind |-> "Sets", openings |-> o, monsters |-> m, chests |-> c]

\* The sweep with its loops nested the other way: x outer, y inner.
ScanCoordByColumns(i) == <<i \div height, i % height>>

\* The cell the sweep visits at step i: y outer, x inner.
ScanCoord(i) == <<i % width, i \div width>>

RECURSIVE ScanFrom(_, _)
ScanFrom(i, acc) ==
  IF i >= width * height THEN acc
  ELSE
    LET coord == ScanCoord(i)
        tile == get_tile(coord)
        m2 == IF tile = "Monster" THEN acc.monsters \cup {coord} ELSE acc.monsters
        c2 == IF tile = "TreasureChest" THEN acc.chests \cup {coord} ELSE acc.chests
    IN IF coord \in walls
         THEN IF tile # "None"
                THEN WallOverlapsFilledTile(coord, tile)
                ELSE ScanFrom(i + 1, ScanAcc(acc.openings, m2, c2))
         ELSE ScanFrom(i + 1, ScanAcc(acc.openings \cup {coord}, m2, c2))

ScanBoard == ScanFrom(0, ScanAcc({}, {}, {}))

----------------------------------------------------------------------------
(* check_shape, the flood fill *)

\* Coord::neighbors4: the orthogonal neighbours that are coordinates.
neighbors4(c) ==
  SelectSeq(<< <<c[1], c[2] - 1>>, <<c[1] + 1, c[2]>>, <<c[1], c[2] + 1>>, <<c[1] - 1, c[2]>> >>,
            LAMBDA n : n[1] >= 0 /\ n[2] >= 0)

\* The neighbours the fill pushes: those that are openings.
FillNeighbors(here, opens) == SelectSeq(neighbors4(here), LAMBDA n : n \in opens)

\* A fill that takes every opening as reached.
FloodFillEverywhere(stack, seen, opens) == opens

\* The while loop over the todo stack: pop the last element, and if it is
\* new to rvf push its open neighbours.
RECURSIVE FloodFill(_, _, _)
FloodFill(stack, seen, opens) ==
  IF Len(stack) = 0 THEN seen
  ELSE
    LET here == stack[Len(stack)]
        rest == SubSeq(stack, 1, Len(stack) - 1)
    IN IF here \in seen
         THEN FloodFill(rest, seen, opens)
         ELSE FloodFill(rest \o FillNeighbors(here, opens), seen \cup {here}, opens)

----------------------------------------------------------------------------
(* check_shape, the loop over the openings *)

\* Direction8 in clockwise order from North; rotate_by(k) steps clockwise.
Deltas == << <<0, -1>>, <<1, -1>>, <<1, 0>>, <<1, 1>>,
             <<0, 1>>, <<-1, 1>>, <<-1, 0>>, <<-1, -1>> >>
North == 0
East == 2
South == 4
West == 6
rotate_by(d, k) == (d + k) % 8
deltas(d) == Deltas[d + 1]

Orthags == {North, East, South, West}

neighbor_dirs(orthag) == {orthag, rotate_by(orthag, 1), rotate_by(orthag, 2)}

\* The closure passed to all(): the neighbour in direction nd is on the
\* board and not a wall.
NeighborOpen(coord, nd) ==
  LET n == <<coord[1] + deltas(nd)[1], coord[2] + deltas(nd)[2]>>
  IN /\ to_coord(n)[1] = "Some"
     /\ ~ (n[1] >= width \/ n[2] >= height \/ n \in walls)

\* all() where any() is meant: every run of three neighbours must be open.
too_big_every_run(coord) ==
  \A orthag \in Orthags : \A nd \in neighbor_dirs(orthag) : NeighborOpen(coord, nd)

too_big(coord) ==
  \E orthag \in Orthags : \A nd \in neighbor_dirs(orthag) : NeighborOpen(coord, nd)

\* ICoord::neighbors4: all four, on the board or not.
ineighbors4(c) ==
  {<<c[1], c[2] - 1>>, <<c[1] + 1, c[2]>>, <<c[1], c[2] + 1>>, <<c[1] - 1, c[2]>>}

neighbor_count(coord, opens) ==
  Cardinality({n \in ineighbors4(coord) :
                 IF to_coord(n)[1] = "None" THEN TRUE ELSE n \notin opens})

\* The match arms split one too low: 0 | 1 and 2 | 3 | 4.
IsDeadEndFromTwo(count) == count \in {2, 3, 4}

IsDeadEnd(count) == count \in {3, 4}

\* The iteration without its reachability test.
LoopBodyUnreached(coord, opens, mons, reach) ==
  IF IsDeadEnd(neighbor_count(coord, opens))
    THEN (IF coord \notin mons THEN Failure(coord, "DeadEndWithoutMonster") ELSE Ok)
    ELSE (IF coord \in mons THEN Failure(coord, "MonsterWithoutDeadEnd") ELSE Ok)

\* One iteration of the loop for `coord`: the Failure it returns, or Ok
\* when it falls through to the next opening.
LoopBody(coord, opens, mons, reach) ==
  IF coord \notin reach THEN Failure(coord, "DiscontiguousAreas")
  ELSE IF IsDeadEnd(neighbor_count(coord, opens))
    THEN (IF coord \notin mons THEN Failure(coord, "DeadEndWithoutMonster") ELSE Ok)
    ELSE (IF coord \in mons THEN Failure(coord, "MonsterWithoutDeadEnd") ELSE Ok)

ShapeResult(kind, big) == [kind |-> kind, big |-> big]

\* A loop in which no iteration returns.
FailingNowhere(opens, mons, reach) == {}

\* The openings on which an iteration of the loop returns a Failure.
Failing(opens, mons, reach) ==
  {c \in opens : LoopBody(c, opens, mons, reach).kind = "Err"}

\* The loop over openings.iter(), lines 117-184.  The iterator yields
\* `first_open` first, as it did for the flood fill, and the other openings
\* in any order.  An iteration reads only openings, monsters, rvf and the
\* solution, none of which the loop changes, so the loop returns the
\* Failure of first_open if it has one, else that of whichever failing
\* opening the iterator yields first, else Ok with every too-big opening
\* collected.  The set of results the iteration orders can produce:
LoopResults(first_open, opens, mons, reach) ==
  LET failing == Failing(opens, mons, reach)
  IN IF first_open \in failing
       THEN {LoopBody(first_open, opens, mons, reach)}
     ELSE IF failing # {}
       THEN {LoopBody(c, opens, mons, reach) : c \in failing}
     ELSE {ShapeResult("Shape", {c \in opens : too_big(c)})}

----------------------------------------------------------------------------
(* check_chest *)

ChestScan(kind, owned, qs) == [kind |-> kind, owned |-> owned, asked |-> qs]

\* The off-board coordinates asked about once `here` has been queried.
Asking(qs, here) == IF InBounds(here) THEN qs ELSE qs \cup {here}

\* The cell the 3x3 scan visits at step i: y outer, x inner.
WindowCoord(cx, cy, i) == <<cx + (i % 3), cy + (i \div 3)>>

Window(cx, cy) == {WindowCoord(cx, cy, i) : i \in 0 .. 8}

\* The nine is_wall queries of one corner: "Clear" when none is a wall,
\* "Reject" at the first wall, "Panic" when is_wall panics.
RECURSIVE WindowScan(_, _, _, _, _)
WindowScan(cx, cy, i, mode, qs) ==
  IF i = 9 THEN ChestScan("Clear", Window(cx, cy), qs)
  ELSE
    LET here == WindowCoord(cx, cy, i)
        ans == is_wall(here, mode)
        qs2 == Asking(qs, here)
    IN IF ans = "panic" THEN ChestScan("Panic", {}, qs2)
       ELSE IF ans = "wall" THEN ChestScan("Reject", {}, qs2)
       ELSE WindowScan(cx, cy, i + 1, mode, qs2)

\* top_bottom.chain(left_right): the twelve border positions in the order
\* the loop visits them.
Border(cx, cy) ==
  [k \in 1 .. 12 |->
     IF k <= 6
       THEN <<cx + ((k - 1) \div 2), IF (k - 1) % 2 = 0 THEN cy - 1 ELSE cy + 3>>
       ELSE <<IF (k - 7) % 2 = 0 THEN cx - 1 ELSE cx + 3, cy + ((k - 7) \div 2)>>]

\* The answer for one border position: a wall when to_coord gives None,
\* else whatever the Solution says.
BorderIsWall(border_coord, mode) ==
  IF to_coord(border_coord)[1] = "None" THEN "wall" ELSE is_wall(border_coord, mode)

BorderAsking(qs, border_coord) ==
  IF to_coord(border_coord)[1] = "None" THEN qs ELSE Asking(qs, border_coord)

\* The test on found_empty inverted.
EntranceMissing(found_empty) == ~ found_empty

\* What the end of the border loop does with found_empty.
EntranceFound(found_empty) == found_empty

RECURSIVE BorderScan(_, _, _, _, _)
BorderScan(border, k, found_empty, mode, qs) ==
  IF k > Len(border)
    THEN ChestScan(IF EntranceFound(found_empty) THEN "Accept" ELSE "Reject", {}, qs)
  ELSE
    LET ans == BorderIsWall(border[k], mode)
        qs2 == BorderAsking(qs, border[k])
    IN IF ans = "panic" THEN ChestScan("Panic", {}, qs2)
       ELSE IF ans = "wall" THEN BorderScan(border, k + 1, found_empty, mode, qs2)
       ELSE IF found_empty THEN ChestScan("Reject", {}, qs2)
       ELSE BorderScan(border, k + 1, TRUE, mode, qs2)

\* One pass of the 'pick_corner loop body.
TryCorner(cx, cy, mode, qs) ==
  LET w == WindowScan(cx, cy, 0, mode, qs)
  IN IF w.kind # "Clear" THEN w
     ELSE LET b == BorderScan(Border(cx, cy), 1, FALSE, mode, w.asked)
          IN ChestScan(b.kind, IF b.kind = "Accept" THEN w.owned ELSE {}, b.asked)

min_corner(v) == saturating_sub(v, 2)
max_corner(v, limit) == Min(min_corner(v) + 2, limit)

\* The corners in the order the two for loops try them: y outer, x inner.
Corners(chest) ==
  LET x0 == min_corner(chest[1])
      x1 == max_corner(chest[1], width)
      y0 == min_corner(chest[2])
      y1 == max_corner(chest[2], height)
      nx == x1 - x0 + 1
      ny == y1 - y0 + 1
  IN [i \in 1 .. nx * ny |-> <<x0 + ((i - 1) % nx), y0 + ((i - 1) \div nx)>>]

RECURSIVE TryCorners(_, _, _, _)
TryCorners(corners, i, mode, qs) ==
  IF i > Len(corners) THEN ChestScan("NoRoom", {}, qs)
  ELSE
    LET r == TryCorner(corners[i][1], corners[i][2], mode, qs)
    IN IF r.kind = "Accept" THEN ChestScan("Room", r.owned, r.asked)
       ELSE IF r.kind = "Panic" THEN r
       ELSE TryCorners(corners, i + 1, mode, r.asked)

\* A check_chest that takes the 3x3 block centred on the chest as its room.
check_chest_centred(chest, mode) ==
  ChestScan("Room", (chest[1] - 1 .. chest[1] + 1) \X (chest[2] - 1 .. chest[2] + 1), {})

\* check_chest(solution, chest): kind "Room" with the owned cells, "NoRoom"
\* for Err(NoTreasureRoom), or "Panic"; with the off-board queries made.
check_chest(chest, mode) == TryCorners(Corners(chest), 1, mode, {})

\* The difference taken the other way round.
UnclaimedSwapped(big, claim) == claim \ big

\* big_opens.difference(&claimed_by_chests)
Unclaimed(big, claim) == big \ claim

----------------------------------------------------------------------------
(* Inputs *)

Kinds == {"None", "Monster", "TreasureChest"}

\* parse.rs, a_tile: the tile a level character stands for; any other
\* character matches no alternative and is a parse error.
a_tile(ch) ==
  IF ch = "@" THEN "Monster"
  ELSE IF ch = "$" THEN "TreasureChest"
  ELSE IF ch = "." THEN "None"
  ELSE "Err"

\* A line of level text is a sequence of characters, without its line
\* ending.
Digits == {"0", "1", "2", "3", "4", "5", "6", "7", "8", "9"}
Blanks == {" ", "\t"}

\* space0: the text after its leading spaces and tabs.
RECURSIVE space0(_)
space0(text) ==
  IF text # <<>> /\ text[1] \in Blanks THEN space0(Tail(text)) ELSE text

\* parse.rs, puzzle_line, on a line that starts with its hint: a digit,
\* then exactly `len` tiles, then spaces and at most one line ending.
\* What follows the tiles and the spaces on the same line is left unparsed.
puzzle_line(text, len) ==
  IF /\ Len(text) >= len + 1
     /\ text[1] \in Digits
     /\ \A i \in 2 .. len + 1 : a_tile(text[i]) # "Err"
    THEN [kind |-> "Ok",
          tiles |-> [x \in 1 .. len |-> a_tile(text[x + 1])],
          rest |-> space0(SubSeq(text, len + 2, Len(text)))]
    ELSE [kind |-> "Err"]

\* many0(puzzle_line): the rows parsed until puzzle_line fails, and the
\* lines left from there on.
RECURSIVE many0_puzzle_line(_, _, _)
many0_puzzle_line(texts, len, rows) ==
  IF texts = <<>> THEN [rows |-> rows, rest |-> <<>>]
  ELSE LET pl == puzzle_line(texts[1], len)
       IN IF pl.kind = "Err" THEN [rows |-> rows, rest |-> texts]
          ELSE many0_puzzle_line(
                 (IF pl.rest = <<>> THEN <<>> ELSE <<pl.rest>>) \o Tail(texts),
                 len, Append(rows, pl.tiles))

\* What multispace0 skips: spaces, tabs, carriage returns and line feeds.
MultiBlanks == {" ", "\t", "\r", "\n"}

\* The text of one line after its leading white space, a carriage return
\* that is not part of a line ending included.
RECURSIVE SkipMultiBlanks(_)
SkipMultiBlanks(text) ==
  IF text # <<>> /\ text[1] \in MultiBlanks THEN SkipMultiBlanks(Tail(text)) ELSE text

\* multispace0: the lines after their leading white space; the line
\* endings between the lines are white space too.
RECURSIVE multispace0(_)
multispace0(texts) ==
  IF texts = <<>> THEN <<>>
  ELSE IF SkipMultiBlanks(texts[1]) = <<>> THEN multispace0(Tail(texts))
  ELSE <<SkipMultiBlanks(texts[1])>> \o Tail(texts)

\* The puzzle lines as they stand in the level text: `lines` holds the
\* tile characters of each line, which follow the line's hint digit.
WithHints(lines) == [y \in 1 .. Len(lines) |-> <<"0">> \o lines[y]]

PuzzleRows(top_hints, lines) ==
  many0_puzzle_line(WithHints(lines), Len(top_hints), <<>>)

\* parse.rs, puzzle: the Puzzle it returns.  The grid is as wide as the
\* top hints and as high as the number of puzzle lines that parsed.
ParsePuzzle(top_hints, lines) ==
  LET rows == PuzzleRows(top_hints, lines).rows
  IN [width |-> Len(top_hints), height |-> Len(rows),
      tiles |-> [c \in Cells(Len(top_hints), Len(rows)) |-> rows[c[2] + 1][c[1] + 1]]]

\* parse.rs, puzzle: the text it leaves unparsed.
ParseRest(top_hints, lines) == multispace0(PuzzleRows(top_hints, lines).rest)

\* parse.rs, level and parse_to_level: an error unless puzzle leaves
\* nothing unparsed.
parse_to_level(top_hints, lines) ==
  IF ParseRest(top_hints, lines) = <<>>
    THEN [kind |-> "Ok", puzzle |-> ParsePuzzle(top_hints, lines)]
    ELSE [kind |-> "Err"]

\* A Solution that answers from a lookup table, as Dummy does.
LookupWalls(lookup) ==
  {c \in Cells(Len(lookup[1]), Len(lookup)) : lookup[c[2] + 1][c[1] + 1] # 0}

\* main.rs, CmdTestSolver::run: the test level and the Dummy solution.
TestTopHints == <<5, 2, 1, 2, 5>>
TestLines == << <<".", ".", ".", ".", ".">>,
                <<".", ".", ".", ".", ".">>,
                <<".", ".", "$", ".", ".">>,
                <<".", ".", ".", ".", ".">>,
                <<".", ".", ".", ".", ".">>,
                <<"@", ".", ".", ".", "@">> >>
DummyLookup == << <<1, 1, 1, 1, 1>>,
                  <<1, 0, 0, 0, 1>>,
                  <<1, 0, 0, 0, 1>>,
                  <<1, 0, 0, 0, 1>>,
                  <<1, 1, 0, 1, 1>>,
                  <<0, 0, 0, 0, 0>> >>
TestLevel == [puzzle |-> parse_to_level(TestTopHints, TestLines).puzzle,
              walls |-> LookupWalls(DummyLookup)]

\* A level in the same format whose chest stands in the second column,
\* in the corridor that leads from a monster into a room on the top edge.
EdgeTopHints == <<2, 2, 1, 1, 1, 4>>
EdgeLines == << <<".", ".", ".", ".", ".", ".">>,
                <<"@", "$", ".", ".", ".", ".">>,
                <<".", ".", ".", ".", ".", ".">>,
                <<".", ".", ".", ".", ".", ".">> >>
EdgeLookup == << <<1, 1, 0, 0, 0, 1>>,
                 <<0, 0, 0, 0, 0, 1>>,
                 <<1, 1, 0, 0, 0, 1>>,
                 <<1, 1, 1, 1, 1, 1>> >>
EdgeLevel == [puzzle |-> parse_to_level(EdgeTopHints, EdgeLines).puzzle,
              walls |-> LookupWalls(EdgeLookup)]

\* A level whose room lies against the top, right and bottom edges of the
\* board, entered from a monster's dead end on the left.
FlushTopHints == <<2, 0, 0, 0>>
FlushLines == << <<".", ".", ".", ".">>,
                 <<"@", ".", "$", ".">>,
                 <<".", ".", ".", ".">> >>
FlushLookup == << <<1, 0, 0, 0>>,
                  <<0, 0, 0, 0>>,
                  <<1, 0, 0, 0>> >>
FlushLevel == [puzzle |-> parse_to_level(FlushTopHints, FlushLines).puzzle,
               walls |-> LookupWalls(FlushLookup)]

Seeds == {TestLevel, EdgeLevel, FlushLevel}

\* A level with a room in the top left corner of the board and, at the end
\* of the corridor leaving it, a 2x2 square of open cells.
SquareTopHints == <<1, 1, 1, 3, 2, 2>>
SquareLines == << <<".", ".", ".", ".", ".", ".">>,
                  <<".", "$", ".", ".", ".", ".">>,
                  <<".", ".", ".", ".", ".", ".">>,
                  <<".", ".", ".", ".", ".", ".">> >>
SquareLookup == << <<0, 0, 0, 1, 0, 0>>,
                   <<0, 0, 0, 0, 0, 0>>,
                   <<0, 0, 0, 1, 1, 1>>,
                   <<1, 1, 1, 1, 1, 1>> >>
SquareLevel == [puzzle |-> parse_to_level(SquareTopHints, SquareLines).puzzle,
                walls |-> LookupWalls(SquareLookup)]

\* The levels checked as they are.
FixedLevels == {SquareLevel}

\* The subsets of S with at most k elements.
RECURSIVE KSubsets(_, _)
KSubsets(S, k) ==
  IF k = 0 THEN {{}}
  ELSE LET smaller == KSubsets(S, k - 1)
       IN smaller \cup {T \cup {c} : T \in smaller, c \in S}

\* What one cell of an input is: wall or not, and its fixed tile.
CellStates == [wall : BOOLEAN, tile : Kinds]
CellOf(inp, c) == [wall |-> c \in inp.walls, tile |-> inp.puzzle.tiles[c]]

\* The inputs that differ from `seed` in exactly the cells of D.
EditsAt(seed, D) ==
  LET others == [c \in D |-> CellStates \ {CellOf(seed, c)}]
      choices == {f \in [D -> CellStates] : \A c \in D : f[c] \in others[c]}
  IN {[puzzle |-> [width |-> seed.puzzle.width, height |-> seed.puzzle.height,
                   tiles |-> [c \in DOMAIN seed.puzzle.tiles |->
                                IF c \in D THEN f[c].tile ELSE seed.puzzle.tiles[c]]],
       walls |-> {c \in DOMAIN seed.puzzle.tiles :
                    IF c \in D THEN f[c].wall ELSE c \in seed.walls}] :
      f \in choices}

\* The boards of at most MaxCells cells, as <<width, height>>.
SmallBoards == {d \in (1 .. MaxCells) \X (1 .. MaxCells) : d[1] * d[2] <= MaxCells}

\* Every puzzle and every wall layout on a small board.
SmallInit ==
  \E d \in SmallBoards :
    \E t \in [Cells(d[1], d[2]) -> Kinds], ws \in SUBSET Cells(d[1], d[2]) :
      /\ puzzle = [width |-> d[1], height |-> d[2], tiles |-> t]
      /\ walls = ws

\* Every input within MaxEdits cells of a seed level.
SeedInit ==
  \E seed \in Seeds :
    \E D \in KSubsets(DOMAIN seed.puzzle.tiles, MaxEdits) :
      \E inp \in EditsAt(seed, D) :
        /\ puzzle = inp.puzzle
        /\ walls = inp.walls

----------------------------------------------------------------------------
(* check_solution, twice on the same puzzle and solution *)

\* The locals of a call before it has run.
Fresh ==
  /\ pc = "shape"
  /\ openings = {} /\ monsters = {} /\ chests = {}
  /\ rvf = {}
  /\ big_opens = {} /\ todo = {} /\ claimed = {} /\ rooms = {}
  /\ asked = {}
  /\ result = NoResult

\* Every board up to MaxSide by MaxSide without fixed tiles, all open or
\* all walls.
BlankInit ==
  \E w \in 1 .. MaxSide, h \in 1 .. MaxSide :
    /\ puzzle = [width |-> w, height |-> h, tiles |-> [c \in Cells(w, h) |-> "None"]]
    /\ walls \in {{}, Cells(w, h)}

FixedInit ==
  \E level \in FixedLevels :
    /\ puzzle = level.puzzle
    /\ walls = level.walls

\* No harness is running while check_solution is called directly.
NoHarness ==
  /\ cursor = <<0, 0>>
  /\ markings = [c \in Board |-> "None"]
  /\ solved = NoResult
  /\ must_redraw = FALSE
  /\ quit = FALSE
  /\ hpc = "key"

Init ==
  /\ (SmallInit \/ SeedInit \/ BlankInit \/ FixedInit)
  /\ oob = "unasked"
  /\ call = 1
  /\ first = NoResult
  /\ Fresh
  /\ NoHarness

\* return Err(..) or Ok(()) from check_solution
Return(r) ==
  /\ result' = r
  /\ pc' = "done"

\* check_shape returns Err: the locals it had built stay as they were.
ShapeErr(fail, s, reach) ==
  /\ Return(fail)
  /\ openings' = s.openings
  /\ monsters' = s.monsters
  /\ chests' = s.chests
  /\ rvf' = reach
  /\ UNCHANGED <<big_opens, todo>>

\* check_shape returns Ok((chests, big)): its other locals go out of scope
\* and check_solution starts iterating over chests.
ShapeOk(s, big) ==
  /\ chests' = s.chests
  /\ big_opens' = big
  /\ todo' = s.chests
  /\ pc' = "chests"
  /\ openings' = {} /\ monsters' = {} /\ rvf' = {}
  /\ UNCHANGED result

\* check_solution, line 30: check_shape.  The sweep (lines 62-91); with no
\* opening, Ok((chests, {})) (lines 95-102); else the flood fill from the
\* first opening the set's iterator yields, which is any of them, and the
\* loop over the openings.  (s and reach are bound through singleton sets
\* so that each is computed once.)
CheckShape ==
  /\ pc = "shape"
  /\ \E s \in {ScanBoard} :
       IF s.kind = "Err" THEN ShapeErr(s, ScanAcc({}, {}, {}), {})
       ELSE IF s.openings = {} THEN ShapeOk(s, {})
       ELSE \E first_open \in s.openings :
              \E reach \in {FloodFill(<<first_open>>, {}, s.openings)} :
                \E r \in LoopResults(first_open, s.openings, s.monsters, reach) :
                  IF r.kind = "Err" THEN ShapeErr(r, s, reach) ELSE ShapeOk(s, r.big)
  /\ UNCHANGED <<puzzle, walls, oob, call, first, claimed, rooms, asked, hvars>>

\* check_solution, lines 33-36: one iteration of `for chest in chests`, the
\* set's iterator yielding any chest not yet seen.  The Solution's
\* behaviour outside the board is settled the first time it is asked.
Chest ==
  /\ pc = "chests"
  /\ todo # {}
  /\ \E chest \in todo :
       \E mode \in (IF oob = "unasked" THEN OobModes ELSE {oob}) :
         LET r == check_chest(chest, mode)
         IN /\ oob' = (IF r.asked = {} THEN oob ELSE mode)
            /\ asked' = asked \cup r.asked
            /\ IF r.kind = "Panic"
                 THEN /\ Return(Panic)
                      /\ UNCHANGED <<todo, claimed, rooms>>
               ELSE IF r.kind = "NoRoom"
                 THEN /\ Return(Failure(chest, "NoTreasureRoom"))
                      /\ UNCHANGED <<todo, claimed, rooms>>
                 ELSE /\ claimed' = claimed \cup r.owned
                      /\ rooms' = rooms \cup {<<chest, r.owned>>}
                      /\ todo' = todo \ {chest}
                      /\ UNCHANGED <<pc, result>>
  /\ UNCHANGED <<puzzle, walls, call, first, openings, monsters, chests, rvf,
                 big_opens, hvars>>

\* check_solution, lines 38-49: unclaimed[0] is any unclaimed cell.
Reconcile ==
  /\ pc = "chests"
  /\ todo = {}
  /\ LET unclaimed == Unclaimed(big_opens, claimed)
     IN IF unclaimed # {}
          THEN \E c \in unclaimed : Return(Failure(c, "LargeAreaOutsideOfTreasureRoom"))
          ELSE Return(Ok)
  /\ UNCHANGED <<puzzle, walls, oob, call, first, openings, monsters, chests,
                 rvf, big_opens, todo, claimed, rooms, asked, hvars>>

\* The caller validates the same puzzle and solution again.
Recheck ==
  /\ pc = "done"
  /\ call = 1
  /\ result.kind # "Panic"
  /\ call' = 2
  /\ first' = result
  /\ pc' = "shape"
  /\ openings' = {} /\ monsters' = {} /\ chests' = {}
  /\ rvf' = {}
  /\ big_opens' = {} /\ todo' = {} /\ claimed' = {} /\ rooms' = {}
  /\ asked' = {}
  /\ result' = NoResult
  /\ UNCHANGED <<puzzle, walls, oob, hvars>>

Next == CheckShape \/ Chest \/ Reconcile \/ Recheck

Spec == Init /\ [][Next]_vars

----------------------------------------------------------------------------
(* The solve harness: one update per key press *)

\* Most cells of a board the harness is run on.
MaxHarnessCells == 4

\* check_solution, lines 33-49, for the chests and big_opens check_shape
\* returned: the results the orders of the chest loop and of the unclaimed
\* cells can give.
ChestsResults(chs, big, mode) ==
  UNION {
    LET panicking == {c \in chs : scans[c].kind = "Panic"}
        roomless == {c \in chs : scans[c].kind = "NoRoom"}
        unclaimed == Unclaimed(big, UNION {scans[c].owned : c \in chs})
    IN IF panicking \cup roomless # {}
         THEN {Failure(c, "NoTreasureRoom") : c \in roomless}
                \cup (IF panicking # {} THEN {Panic} ELSE {})
       ELSE IF unclaimed # {}
         THEN {Failure(c, "LargeAreaOutsideOfTreasureRoom") : c \in unclaimed}
       ELSE {Ok} :
    scans \in {[c \in chs |-> check_chest(c, mode)]}}

\* check_shape followed by the rest of check_solution, for the sets `s`
\* the sweep built and the opening the iterator yields first.
ShapeResults(s, first_open, mode) ==
  UNION {UNION {IF r.kind = "Err" THEN {r}
                ELSE ChestsResults(s.chests, r.big, mode) :
                r \in LoopResults(first_open, s.openings, s.monsters, reach)} :
         reach \in {FloodFill(<<first_open>>, {}, s.openings)}}

\* check_solution as one call: every result it can return for the current
\* puzzle and walls, over the iteration orders of its hash sets.  (The
\* sweep, the fill and the chest scans are bound through singleton sets so
\* that each is computed once.)
check_solution(mode) ==
  UNION {IF s.kind = "Err" THEN {s}
         ELSE IF s.openings = {} THEN ChestsResults(s.chests, {}, mode)
         ELSE UNION {ShapeResults(s, first_open, mode) : first_open \in s.openings} :
         s \in {ScanBoard}}

\* SolutionView::is_wall: the cells marked Wall; outside the grid
\* marks.get gives None and the answer is "no wall".
SolutionView(marks) == {c \in DOMAIN marks : marks[c] = "Wall"}
ViewOutside == "open"

\* The keys and modifiers update tells apart; "x" is any other key.
Keys == {"Left", "Right", "Up", "Down", "h", "j", "k", "l", "H", "J", "K", "L",
         "q", "w", "c", "x"}
Mods == [shift : BOOLEAN, control : BOOLEAN]

\* update, lines 107-121.
cursor_delta(key) ==
  IF key \in {"Left", "h", "H"} THEN "West"
  ELSE IF key \in {"Right", "l", "L"} THEN "East"
  ELSE IF key \in {"Up", "k", "K"} THEN "North"
  ELSE IF key \in {"Down", "j", "J"} THEN "South"
  ELSE "None"

rem_euclid(a, n) == a % n

\* update, lines 123-132.
x2(delta, shift) ==
  IF delta \in {"North", "South"} THEN cursor[1]
  ELSE IF delta = "West"
    THEN (IF shift THEN 0 ELSE rem_euclid(cursor[1] + width - 1, width))
    ELSE (IF shift THEN width - 1 ELSE rem_euclid(cursor[1] + 1, width))

\* update, lines 133-141.
y2(delta, shift) ==
  IF delta \in {"West", "East"} THEN cursor[2]
  ELSE IF delta = "North"
    THEN (IF shift THEN 0 ELSE rem_euclid(cursor[2] + height - 1, height))
    ELSE (IF shift THEN height - 1 ELSE rem_euclid(cursor[2] + 1, height))

\* A harness in which every cell can be marked.
CanMarkAnywhere(c) == TRUE

\* update, line 148: markings are tried only where the puzzle has no tile.
CanMark(c) == get_tile(c) = "None"

\* update, lines 150-162: "Err" stands for Err(()).
wanted_marking(key, marking_here) ==
  IF key = "q" THEN (IF marking_here = "Wall" THEN "None" ELSE "Wall")
  ELSE IF key = "w" THEN (IF marking_here = "None" THEN "Empty" ELSE "None")
  ELSE "Err"

\* SolveHarness::enter on a level: any puzzle on a board of at most
\* MaxHarnessCells cells.
HarnessInit ==
  /\ \E d \in (1 .. MaxHarnessCells) \X (1 .. MaxHarnessCells) :
       /\ d[1] * d[2] <= MaxHarnessCells
       /\ \E t \in [Cells(d[1], d[2]) -> Kinds] :
            puzzle = [width |-> d[1], height |-> d[2], tiles |-> t]
  /\ markings = [c \in Board |-> "None"]
  /\ walls = SolutionView(markings)
  /\ cursor = <<0, 0>>
  /\ solved = NoResult
  /\ must_redraw = FALSE
  /\ quit = FALSE
  /\ hpc = "key"
  /\ oob = "unasked"
  /\ call = 1
  /\ first = NoResult
  /\ Fresh

\* What no step of the harness changes: the level, and the variables of a
\* direct check_solution call.
HarnessKeeps ==
  UNCHANGED <<puzzle, oob, call, first, pc, openings, monsters, chests, rvf,
              big_opens, todo, claimed, rooms, asked, result>>

\* SolveHarness::update(key, mods), lines 91-170: the 'inner block.  The
\* view of line 171 is taken of the markings it leaves.
update_inner(key, mods) ==
  /\ IF key = "c" /\ mods.control
       THEN /\ quit' = TRUE
            /\ UNCHANGED <<must_redraw, cursor, markings>>
     ELSE
       /\ quit' = FALSE
       /\ IF key = "l" /\ mods.control
            THEN /\ must_redraw' = TRUE
                 /\ UNCHANGED <<cursor, markings>>
          ELSE
            /\ must_redraw' = FALSE
            /\ IF cursor_delta(key) # "None"
                 THEN /\ cursor' = <<x2(cursor_delta(key), mods.shift),
                                      y2(cursor_delta(key), mods.shift)>>
                      /\ UNCHANGED markings
               ELSE
                 /\ UNCHANGED cursor
                 /\ IF CanMark(cursor) /\ wanted_marking(key, markings[cursor]) # "Err"
                      THEN markings' = [markings EXCEPT
                                          ![cursor] = wanted_marking(key, markings[cursor])]
                      ELSE UNCHANGED markings
  /\ walls' = SolutionView(markings')

\* spin, lines 67-81: a key press or repeat is handed to update, unless an
\* earlier update returned true.
KeyPress ==
  /\ hpc = "key"
  /\ ~ quit
  /\ \E key \in Keys, mods \in Mods : update_inner(key, mods)
  /\ hpc' = "check"
  /\ UNCHANGED solved
  /\ HarnessKeeps

\* update, lines 171-179: check_solution on the view, its result stored in
\* solved, and the return to spin.
update_check ==
  /\ hpc = "check"
  /\ solved' \in check_solution(ViewOutside)
  /\ hpc' = "key"
  /\ UNCHANGED <<cursor, markings, walls, must_redraw, quit>>
  /\ HarnessKeeps

HarnessNext == KeyPress \/ update_check

HarnessSpec == HarnessInit /\ [][HarnessNext]_vars

----------------------------------------------------------------------------
(* The rules of the puzzle, stated on the board itself *)

Done == pc = "done"

\* The cells the solution leaves open.
Open == Board \ walls

Monsters == {c \in Board : get_tile(c) = "Monster"}
Chests == {c \in Board : get_tile(c) = "TreasureChest"}
WalledTiles == {c \in walls : get_tile(c) # "None"}

Around(c) == {<<c[1] + 1, c[2]>>, <<c[1] - 1, c[2]>>, <<c[1], c[2] + 1>>, <<c[1], c[2] - 1>>}

\* How many of the four orthogonal neighbours are walls or off the board.
Blocked(c) == Cardinality(Around(c) \ Open)

\* The cells of S joined to R by orthogonal steps inside S.
RECURSIVE Grow(_, _)
Grow(S, R) ==
  LET more == {n \in S \ R : Around(n) \cap R # {}}
  IN IF more = {} THEN R ELSE Grow(S, R \cup more)

Component(S, c) == Grow(S, {c})
Connected(S) == S = {} \/ Component(S, CHOOSE c \in S : TRUE) = S

\* c lies in a 2x2 square of open cells.
InOpenSquare(c) ==
  \E sx \in {c[1] - 1, c[1]}, sy \in {c[2] - 1, c[2]} :
    {sx, sx + 1} \X {sy, sy + 1} \subseteq Open

RoomCells(cx, cy) == (cx .. cx + 2) \X (cy .. cy + 2)
RoomRing(cx, cy) ==
  ((cx .. cx + 2) \X {cy - 1, cy + 3}) \cup ({cx - 1, cx + 3} \X (cy .. cy + 2))

\* The 3x3 block with top-left corner <<cx, cy>> is open and exactly one
\* cell of its border ring is open.
IsTreasureRoom(cx, cy) ==
  /\ RoomCells(cx, cy) \subseteq Open
  /\ Cardinality(RoomRing(cx, cy) \cap Open) = 1

\* Some treasure room contains the chest.
HasRoomAround(chest) ==
  \E cx \in chest[1] - 2 .. chest[1], cy \in chest[2] - 2 .. chest[2] :
    IsTreasureRoom(cx, cy)

Accepted == Done /\ result = Ok
Failed(reason) == Done /\ result.kind = "Err" /\ result.reason = reason

----------------------------------------------------------------------------
(* C1 *)

\* C1: if check_solution returns Ok, every treasure chest lies inside a 3x3
\* block of open cells that contains the chest and whose 12-cell border
\* ring has exactly one open cell, also for chests at x < 2 or y < 2.
\* The code does not keep this: see C1_ChestOutsideItsRoom.
C1_ChestsLieInTreasureRooms ==
  Accepted => \A chest \in Chests : HasRoomAround(chest)

\* A solution is accepted although its chest stands in column 0 or 1, or
\* row 0 or 1, outside every treasure room.
C1_ChestOutsideItsRoom ==
  /\ Accepted
  /\ \E chest \in Chests :
       /\ chest[1] < 2 \/ chest[2] < 2
       /\ ~ HasRoomAround(chest)

----------------------------------------------------------------------------
(* C2 *)

\* C2: if check_solution returns Ok, an open cell holds a monster exactly
\* when 3 or 4 of its orthogonal neighbours are blocked; and
\* DeadEndWithoutMonster is reported at an open cell without a monster that
\* has 3 or 4 blocked neighbours, MonsterWithoutDeadEnd at an open monster
\* cell that has at most 2.
C2_DeadEndsHoldMonsters ==
  /\ Accepted => \A c \in Open : (c \in Monsters) <=> (Blocked(c) >= 3)
  /\ Failed("DeadEndWithoutMonster") =>
       result.pos \in Open \ Monsters /\ Blocked(result.pos) >= 3
  /\ Failed("MonsterWithoutDeadEnd") =>
       result.pos \in Open \cap Monsters /\ Blocked(result.pos) <= 2

\* An accepted solution with a monster in a dead end and a corridor cell
\* that is no dead end.
C2_Witness ==
  /\ Accepted
  /\ \E c \in Open : c \in Monsters /\ Blocked(c) >= 3
  /\ \E c \in Open : c \notin Monsters /\ Blocked(c) <= 2

----------------------------------------------------------------------------
(* C3 *)

\* C3: if check_solution returns Ok, the open cells are connected under
\* 4-directional adjacency (or there are none).
C3_AcceptedIsConnected == Accepted => Connected(Open)

\* An accepted solution with a room and corridors.
C3_Witness == Accepted /\ Cardinality(Open) >= 10 /\ call = 2

----------------------------------------------------------------------------
(* C4 *)

RoomOf(chest) == {r[2] : r \in {q \in rooms : q[1] = chest}}
InSomeRoom(c) == \E r \in rooms : c \in r[2]

\* The call ended in check_shape or in check_chest.
EarlierOutcome ==
  \/ result.kind = "Panic"
  \/ /\ result.kind = "Err"
     /\ result.reason \in {"WallOverlapsFilledTile", "DiscontiguousAreas",
                           "DeadEndWithoutMonster", "MonsterWithoutDeadEnd",
                           "NoTreasureRoom"}

\* C4: if check_solution returns Ok, every open cell of a fully open 2x2
\* square lies in the room check_chest accepted for some chest; and
\* LargeAreaOutsideOfTreasureRoom is reported exactly when check_shape and
\* every check_chest passed and some such cell lies in no accepted room,
\* at a cell that is one of them.
C4_LargeAreasAreRooms ==
  /\ Accepted =>
       /\ \A chest \in Chests : RoomOf(chest) # {}
       /\ \A c \in Open : InOpenSquare(c) => InSomeRoom(c)
  /\ Failed("LargeAreaOutsideOfTreasureRoom") =>
       /\ \A chest \in Chests : RoomOf(chest) # {}
       /\ result.pos \in Open /\ InOpenSquare(result.pos) /\ ~ InSomeRoom(result.pos)
  /\ (Done /\ ~ EarlierOutcome /\ (\E c \in Open : InOpenSquare(c) /\ ~ InSomeRoom(c)))
       => Failed("LargeAreaOutsideOfTreasureRoom")

\* An accepted solution whose 2x2 squares all lie in a chest's room.
C4_Witness ==
  /\ Accepted
  /\ \E c \in Open : InOpenSquare(c)

----------------------------------------------------------------------------
(* C5 *)

\* The first cell of S in row-major order: y outer, x inner.
RowMajorFirst(S) ==
  CHOOSE c \in S : \A d \in S : c[2] < d[2] \/ (c[2] = d[2] /\ c[1] <= d[1])

\* C5: when a fixed tile is marked as a wall, check_solution returns
\* WallOverlapsFilledTile with the kind and position of the first walled
\* fixed tile in row-major order, whatever else is wrong.
C5_FirstWalledTileIsReported ==
  (Done /\ WalledTiles # {}) =>
     result = WallOverlapsFilledTile(RowMajorFirst(WalledTiles),
                                     get_tile(RowMajorFirst(WalledTiles)))

\* Two walled fixed tiles of different kinds, the one first by rows not
\* the one first by columns.
C5_Witness ==
  /\ Done
  /\ \E c \in WalledTiles, d \in WalledTiles :
       /\ c = RowMajorFirst(WalledTiles)
       /\ d[1] < c[1]
       /\ get_tile(c) # get_tile(d)

----------------------------------------------------------------------------
(* C6 *)

NoTiles == \A c \in Board : get_tile(c) = "None"

\* C6 as written: on a board without fixed tiles the all-wall and the
\* all-open solution are both accepted.
C6_BlankBoardsAccepted ==
  (Done /\ NoTiles /\ (walls = Board \/ walls = {})) => result = Ok

\* C6, amended: on a board without fixed tiles (of at least one cell) the
\* all-wall solution is accepted; the all-open solution is rejected, with
\* DeadEndWithoutMonster when the board is one cell wide or high and with
\* LargeAreaOutsideOfTreasureRoom otherwise.
C6_BlankBoards ==
  /\ (Done /\ NoTiles /\ walls = Board) => result = Ok
  /\ (Done /\ NoTiles /\ walls = {}) =>
       /\ result.kind = "Err"
       /\ result.reason = (IF width = 1 \/ height = 1
                             THEN "DeadEndWithoutMonster"
                             ELSE "LargeAreaOutsideOfTreasureRoom")

\* The all-open solution of a blank board with a 2x2 square has been
\* checked, and so has the all-wall one (the first call's result is kept).
C6_Witness ==
  /\ Done /\ NoTiles /\ call = 2
  /\ width >= 3 /\ height >= 3
  /\ walls = {}

----------------------------------------------------------------------------
(* C7 *)

Disconnected == WalledTiles = {} /\ ~ Connected(Open)

\* C7 as written: when no fixed tile is walled and the open cells form two
\* or more components, check_solution returns DiscontiguousAreas at an open
\* cell the flood fill did not reach, whatever the iteration order.
C7_DiscontiguousIsReported ==
  (Done /\ Disconnected) =>
     /\ result.kind = "Err"
     /\ result.reason = "DiscontiguousAreas"
     /\ result.pos \in Open \ rvf

\* C7, amended: in that case check_solution returns Err, either
\* DiscontiguousAreas at an open cell the flood fill did not reach, or
\* DeadEndWithoutMonster or MonsterWithoutDeadEnd at an open cell the flood
\* fill did reach; the fill having covered the component of one opening.
C7_DiscontiguousOrDeadEnd ==
  (Done /\ Disconnected) =>
     /\ result.kind = "Err"
     /\ \E c \in Open : rvf = Component(Open, c)
     /\ \/ result.reason = "DiscontiguousAreas" /\ result.pos \in Open \ rvf
        \/ /\ result.reason \in {"DeadEndWithoutMonster", "MonsterWithoutDeadEnd"}
           /\ result.pos \in rvf

\* DiscontiguousAreas reported for a solution in two pieces.
C7_Witness ==
  /\ Done /\ Disconnected
  /\ result.kind = "Err" /\ result.reason = "DiscontiguousAreas"

----------------------------------------------------------------------------
(* C8 *)

\* C8: validating the same puzzle and solution twice gives the same result,
\* Ok twice or the same reason at the same position twice.  The code does
\* not keep this: the second call may iterate its hash sets in another
\* order and report another failure.
C8_SameResultTwice == (Done /\ call = 2) => result = first

----------------------------------------------------------------------------
(* C9 *)

\* C9: every coordinate check_solution passes to Solution::is_wall lies on
\* the board.  The code does not keep this: check_chest asks about cells
\* right of and below the board.
C9_OnlyBoardCellsAreAsked == asked = {}

----------------------------------------------------------------------------
(* C10 *)

\* The test level of CmdTestSolver::run with the Dummy solution, as the
\* claim describes them.
IsTestLevel ==
  /\ width = 5 /\ height = 6
  /\ Chests = {<<2, 2>>}
  /\ Monsters = {<<0, 5>>, <<4, 5>>}
  /\ Open = ((1 .. 3) \X (1 .. 3)) \cup {<<2, 4>>} \cup ((0 .. 4) \X {5})

\* C10: the test level with the Dummy layout is accepted.
C10_TestLevelAccepted == (Done /\ IsTestLevel) => result = Ok

\* The test level has been checked, twice.
C10_Witness == Done /\ IsTestLevel /\ call = 2 /\ first = Ok

----------------------------------------------------------------------------
(* C11 *)

\* The corners check_chest tries for a chest.
CandidateCorners(chest) == {Corners(chest)[i] : i \in DOMAIN Corners(chest)}

\* C11: check_chest accepts a candidate window exactly when its nine cells
\* are open and exactly one of its twelve ring positions is open, a ring
\* position off the board on any side counting as blocked whatever the
\* Solution answers there: every room it returned is such a window, and it
\* returns NoTreasureRoom only when no candidate is one.  The code does not
\* keep this: see C11_FlushRoomRejected.
C11_WindowsJudgedByTheRule ==
  /\ \A r \in rooms :
       \E k \in CandidateCorners(r[1]) :
         r[2] = RoomCells(k[1], k[2]) /\ IsTreasureRoom(k[1], k[2])
  /\ Failed("NoTreasureRoom") =>
       \A k \in CandidateCorners(result.pos) : ~ IsTreasureRoom(k[1], k[2])

\* NoTreasureRoom is returned for a chest that stands in a room lying
\* against the right or the bottom edge, with a single entrance.
C11_FlushRoomRejected ==
  /\ Failed("NoTreasureRoom")
  /\ \E k \in CandidateCorners(result.pos) :
       /\ IsTreasureRoom(k[1], k[2])
       /\ result.pos \in RoomCells(k[1], k[2])
       /\ k[1] + 3 = width \/ k[2] + 3 = height

----------------------------------------------------------------------------
(* C12 *)

\* C12 as written: in an accepted solution no two distinct chests have
\* accepted rooms that share a cell.
C12_RoomsOfChestsAreDisjoint ==
  Accepted => \A r \in rooms, q \in rooms : r[1] # q[1] => r[2] \cap q[2] = {}

\* C12, amended: in an accepted solution every chest has one accepted
\* room, every open cell of a fully open 2x2 square lies in at least one of
\* them, and the rooms of two chests are the same nine cells or share none.
C12_RoomsAreEqualOrDisjoint ==
  Accepted =>
    /\ \A chest \in Chests : Cardinality(RoomOf(chest)) = 1
    /\ \A c \in Open : InOpenSquare(c) => InSomeRoom(c)
    /\ \A r \in rooms, q \in rooms : r[2] = q[2] \/ r[2] \cap q[2] = {}

\* An accepted solution with two chests in the same room.
C12_Witness ==
  /\ Accepted
  /\ \E r \in rooms, q \in rooms : r[1] # q[1] /\ r[2] = q[2]

----------------------------------------------------------------------------
(* C13 *)

\* What check_shape tests: no fixed tile is walled, the open cells are
\* connected, and an open cell holds a monster exactly when it is a dead
\* end.
ShapeHolds ==
  /\ WalledTiles = {}
  /\ Connected(Open)
  /\ \A c \in Open : (c \in Monsters) <=> (Blocked(c) >= 3)

\* C13: failures follow the order check_shape, check_chest for each chest,
\* reconciliation.  check_chest runs, and NoTreasureRoom or
\* LargeAreaOutsideOfTreasureRoom is returned, only for a layout that
\* passes every test of check_shape; and LargeAreaOutsideOfTreasureRoom
\* only when, in addition, check_chest accepted a room for every chest.
C13_FailuresFollowThePhases ==
  /\ (pc = "chests" \/ Failed("NoTreasureRoom")
        \/ Failed("LargeAreaOutsideOfTreasureRoom")) => ShapeHolds
  /\ Failed("NoTreasureRoom") => result.pos \in Chests /\ RoomOf(result.pos) = {}
  /\ Failed("LargeAreaOutsideOfTreasureRoom") =>
       \A chest \in Chests : RoomOf(chest) # {}

\* LargeAreaOutsideOfTreasureRoom returned after check_chest accepted the
\* room of a chest, on a layout with a monster-free corridor.
C13_Witness ==
  /\ Failed("LargeAreaOutsideOfTreasureRoom")
  /\ Chests # {}
  /\ \A chest \in Chests : RoomOf(chest) # {}
  /\ call = 2 /\ first.kind = "Err"

----------------------------------------------------------------------------
(* C14 *)

\* C14: in the harness the cursor stays on the board and no cell with a
\* fixed tile carries a marking, so the view reports no wall on a fixed
\* tile and the stored solved state is never a Fail with reason
\* WallOverlapsFilledTile.
C14_HarnessKeepsTilesUnmarked ==
  /\ cursor \in Board
  /\ \A c \in Board : get_tile(c) # "None" => markings[c] = "None"
  /\ WalledTiles = {}
  /\ ~ (solved.kind = "Err" /\ solved.reason = "WallOverlapsFilledTile")

\* The cursor stands on a fixed tile in the last column and last row of a
\* board whose other cells are marked, a wall among them, and the
\* solution has been checked and failed.
C14_Witness ==
  /\ get_tile(cursor) # "None"
  /\ cursor = <<width - 1, height - 1>> /\ cursor # <<0, 0>>
  /\ walls # {}
  /\ \E c \in Board : markings[c] = "Empty"
  /\ hpc = "key" /\ solved.kind = "Err"

====
